---- MODULE Spec2Model ----
(***************************************************************************)
(* Model of mktiles: the constrained-palette error-diffusion quantizer     *)
(* (Palette, circleMask, groupByMask, writeLDrawFile, repaint) of the      *)
(* latest variant of main.cpp (src/unnamed/part_001).                      *)
(*                                                                         *)
(* Numbers.  A Vec3f / ColorLab is a triple <<l, a, b>> of integers in a   *)
(* fixed-point unit (32 units = 100 Lab).  A product error * (w / 16.) is  *)
(* rounded toward zero to that unit.  The weighted distance of             *)
(* getSpecFromPalette is kept multiplied by 500, which does not change any *)
(* comparison between two distances.                                       *)
(***************************************************************************)
EXTENDS Integers, Sequences, FiniteSets, TLC

\* ---------------------------------------------------------------- bounds
\* longest catalogue drawn as an input
MaxPalette == 4
\* number of non-flat pixel patterns drawn as an input image
MaxPattern == 2
\* number of pool colours drawn as a one-colour input image
MaxFlat == 2
\* most records of a catalogue file drawn as an input
MaxRecords == 3
\* most calls of repaint() in one run of main
MaxPasses == 3
\* longest side of an image a pass is run on with any tile count
MaxPassSide == 3
\* longest side of an image handed to resizeToBeDivisible
MaxSide == 7
\* largest tile count (tilesLongSide) handed to resizeToBeDivisible
MaxTiles == 4

\* ------------------------------------------------------- program constants
\* std::numeric_limits<double>::max(), the start value of minDist
DBL_MAX == 2147483647
\* mc.nrGroups
nrGroups == 6
\* mc.nrOfParts
nrOfParts == 4

\* nullptr, as an index into availableColors
NULL == 0

Abs(x) == IF x < 0 THEN -x ELSE x
Max(x, y) == IF x < y THEN y ELSE x
Min(x, y) == IF x < y THEN x ELSE y

\* n / d of a floating-point value held in the fixed-point unit
Fix(n, d) == IF n >= 0 THEN n \div d ELSE -((-n) \div d)

\* ------------------------------------------------------------- Vec3f
emptyVec == <<0, 0, 0>>
VAdd(u, v) == <<u[1] + v[1], u[2] + v[2], u[3] + v[3]>>
VSub(u, v) == <<u[1] - v[1], u[2] - v[2], u[3] - v[3]>>
\* v * (w / 16.)
VMul16(v, w) == <<Fix(v[1] * w, 16), Fix(v[2] * w, 16), Fix(v[3] * w, 16)>>
\* array<Vec3f, 6> empty
empty == [g \in 0..5 |-> emptyVec]

\* ------------------------------------------------------------- Palette
\* cvtColor(rgbFloat, lab, COLOR_BGR2Lab) on the source colours used here
BGR2Lab(color) ==
  CASE color = <<0, 0, 0>>       -> <<0, 0, 0>>
    [] color = <<255, 255, 255>> -> <<32, 0, 0>>
    [] color = <<128, 128, 128>> -> <<16, 0, 0>>
    [] color = <<255, 0, 0>>     -> <<16, 24, 20>>
    [] color = <<0, 0, 255>>     -> <<10, 24, -32>>
    [] color = <<0, 255, 0>>     -> <<28, -28, 26>>
    [] OTHER                     -> <<16, 0, 0>>

\* struct ColorSpec, as the constructor fills it
ColorSpec(id, name, color, availability) ==
  [id |-> id, name |-> name, color |-> color, colorLab |-> BGR2Lab(color),
   availability |-> availability]

\* spec.availability.indexed[partId] == '+'
MutAvailableAny(spec, partId) == TRUE
Available(spec, partId) == spec.availability[partId + 1] = "+"

\* the weighted distance of getSpecFromPalette, times 500
MutDistNoLuminance(luminanceFactor, c, lab) ==
  500 * ((c[2] - lab[2]) * (c[2] - lab[2]) + (c[3] - lab[3]) * (c[3] - lab[3]))
Dist(luminanceFactor, c, lab) ==
  luminanceFactor * ((c[1] - lab[1]) * (c[1] - lab[1]))
    + 500 * ((c[2] - lab[2]) * (c[2] - lab[2]))
    + 500 * ((c[3] - lab[3]) * (c[3] - lab[3]))

\* the loop of getSpecFromPalette from element i on
RECURSIVE SpecLoop(_, _, _, _, _, _, _)
SpecLoop(availableColors, luminanceFactor, c, partId, i, minDist, minSpec) ==
  IF i > Len(availableColors) THEN minSpec
  ELSE LET spec == availableColors[i]
           dist == Dist(luminanceFactor, c, spec.colorLab)
       IN IF Available(spec, partId) /\ dist < minDist
          THEN SpecLoop(availableColors, luminanceFactor, c, partId, i + 1, dist, i)
          ELSE SpecLoop(availableColors, luminanceFactor, c, partId, i + 1,
                        minDist, minSpec)

\* Palette::getSpecFromPalette before its assert: the index of the chosen
\* ColorSpec in availableColors, or NULL
MutFallbackToFirst(availableColors, luminanceFactor, c, partId) ==
  LET minSpec == SpecLoop(availableColors, luminanceFactor, c, partId, 1,
                          DBL_MAX, NULL)
  IN IF minSpec = NULL /\ Len(availableColors) > 0 THEN 1 ELSE minSpec
MutLastOfNearest(availableColors, luminanceFactor, c, partId) ==
  LET minSpec == SpecLoop(availableColors, luminanceFactor, c, partId, 1,
                          DBL_MAX, NULL)
      ties == {i \in 1..Len(availableColors) :
                 /\ Available(availableColors[i], partId)
                 /\ minSpec # NULL
                 /\ Dist(luminanceFactor, c, availableColors[i].colorLab)
                      = Dist(luminanceFactor, c, availableColors[minSpec].colorLab)}
  IN IF minSpec = NULL THEN NULL
     ELSE CHOOSE i \in ties : \A j \in ties : j <= i
getSpecFromPalette(availableColors, luminanceFactor, c, partId) ==
  SpecLoop(availableColors, luminanceFactor, c, partId, 1, DBL_MAX, NULL)

\* ------------------------------------------------------------- Mat
\* a Mat: rows, cols and the elements, indexed <<row, column>>
Mat(rows, cols, px) == [rows |-> rows, cols |-> cols, px |-> px]
Pixels(m) == (0..(m.rows - 1)) \X (0..(m.cols - 1))

\* ------------------------------------------------------------- circleMask
\* mc.groupIdToPart = {1, 1, 1, 1, 3, 2}
MutGroupIdToPartAllFlat == [g \in 0..5 |-> 1]
groupIdToPart == [g \in 0..5 |-> CASE g = 4 -> 3 [] g = 5 -> 2 [] OTHER -> 1]

\* int32_t sideLength = imageLongSide / tilesLongSide
SideLength(tilesLongSide, imageLongSide) == imageLongSide \div tilesLongSide

\* rectangle(mask, {Point(x1, y1), Point(x2, y2)}, id, -1): both corners are
\* inside the filled rectangle
InRect(x, y, x1, y1, x2, y2) == x1 <= x /\ x <= x2 /\ y1 <= y /\ y <= y2
\* circle(mask, {cx, cy}, radius, id, -1) for the radii that occur here
InCircle(x, y, cx, cy, radius) ==
  (x - cx) * (x - cx) + (y - cy) * (y - cy) <= radius * radius

\* the value of mask at column x, row y: the last draw that covers it
MaskAt(sideLength, x, y) ==
  LET h == sideLength \div 2
  IN IF InCircle(x, y, h, h, sideLength \div 5) THEN 5
     ELSE IF InCircle(x, y, h, h, h) THEN 4
     ELSE IF InRect(x, y, h, h, sideLength, sideLength) THEN 3
     ELSE IF InRect(x, y, 0, h, h, sideLength) THEN 2
     ELSE IF InRect(x, y, h, 0, sideLength, h) THEN 1
     ELSE 0

\* mc.mask
circleMask(tilesLongSide, imageLongSide) ==
  LET sideLength == SideLength(tilesLongSide, imageLongSide)
  IN Mat(sideLength, sideLength,
         [p \in (0..(sideLength - 1)) \X (0..(sideLength - 1)) |->
            MaskAt(sideLength, p[2], p[1])])

\* ------------------------------------------------------------- images
RECURSIVE Sum(_, _)
Sum(f, S) ==
  IF S = {} THEN 0
  ELSE LET x == CHOOSE x \in S : TRUE IN f[x] + Sum(f, S \ {x})

\* GaussianBlur(img, blurred, Size(), sigma, sigma), as the mean of a pixel
\* and its four neighbours, the border replicated
Blurred(img, p, ch) ==
  LET at(y, x) == img.px[<<Max(0, Min(img.rows - 1, y)),
                           Max(0, Min(img.cols - 1, x))>>][ch]
  IN Fix(at(p[1], p[2]) + at(p[1] - 1, p[2]) + at(p[1] + 1, p[2])
           + at(p[1], p[2] - 1) + at(p[1], p[2] + 1), 5)

\* sharpen(img): the unsharp mask; a low-contrast element keeps its value
sharpen(img, amount, threshold) ==
  LET elem(p, ch) ==
        LET v == img.px[p][ch]
            b == Blurred(img, p, ch)
        IN IF Abs(v - b) * 10000 < 32 * Max(1, threshold)
           THEN v
           ELSE v + Fix((v - b) * Max(1, amount), 100)
  IN Mat(img.rows, img.cols,
         [p \in Pixels(img) |-> <<elem(p, 1), elem(p, 2), elem(p, 3)>>])

\* ------------------------------------------------------------- state
VARIABLES
  palette,          \* state.palette.availableColors
  luminanceFactor,  \* state.luminanceFactor
  amount,           \* state.amount
  threshold,        \* state.threshold
  tilesLongSide,    \* state.tilesLongSide
  original,         \* state.original
  image,            \* state.image, whose pixels groupByMask's image shares
  showMosaic,       \* state.showMosaic
  writeLDrawFile,   \* state.writeLDrawFile
  writePartList,    \* state.writePartList
  ldrawFileName,    \* state.ldrawFileName
  partList,         \* state.partList (the name of the part-count file)
  mc,               \* repaint's mc.mask
  currentRow,       \* groupByMask: vector<array<Vec3f, 6>> currentRow
  nextRow,          \* groupByMask: nextRow
  rc,               \* groupByMask: the tile row; r = rc * tileHeight
  cc,               \* groupByMask: the tile column; c = cc * tileWidth
  groupValues,      \* groupByMask: the six cell averages of the tile
  avg,              \* groupByMask: avg[group], an index into palette
  ldFile,           \* repaint: the ofstream ldFile and what was written to it
  partCounts,       \* repaint: map<string, vector<uint64_t>> partCounts
  disk,             \* the files ldrawFileName and partList on disk
  pc,               \* where the program is
  lastStep,         \* history: the last quantization of a cell
  steps,            \* history: the cells quantized in the current tile, in order
  chosen,           \* history: avg of every tile handed to onTileDone
  calls,            \* history: the (x, y) of every onTileDone call, in order
  query,            \* one call of getSpecFromPalette on its own, and its result
  paletteFile,      \* Palette(paletteFile): the records of the csv file
  in,               \* Palette(paletteFile): the ifstream in
  create,           \* Palette(paletteFile): the ColorSpec create
  pressedKey,       \* main: int pressedKey
  caller,           \* who called repaint(): main, the key loop or on_trackbar
  passLog,          \* history: the repaints so far and the files before this one
  result            \* resizeToBeDivisible: Mat result

flagVars == <<showMosaic, writeLDrawFile, writePartList, ldrawFileName, partList>>
bufVars == <<currentRow, nextRow>>
histVars == <<lastStep, steps, chosen, calls>>
loadVars == <<paletteFile, in, create>>
mainVars == <<pressedKey, caller, passLog>>
resizeVars == <<result>>
passFrame == <<palette, luminanceFactor, amount, threshold, tilesLongSide, original,
               query, loadVars, mainVars, resizeVars>>
vars == <<palette, luminanceFactor, amount, threshold, tilesLongSide, original,
          image, showMosaic, writeLDrawFile, writePartList, ldrawFileName,
          partList, mc, currentRow, nextRow, rc, cc, groupValues, avg, ldFile,
          partCounts, disk, pc, lastStep, steps, chosen, calls, query,
          paletteFile, in, create, pressedKey, caller, passLog, result>>

\* values of variables that hold nothing yet
NoFile == "no file"
NoStep == [group |-> -1, rc |-> 0, cc |-> 0, targetColor |-> <<0, 0, 0>>,
           part |-> 0, spec |-> 0, error |-> <<0, 0, 0>>, deposits |-> <<>>]
Uninit == [g \in 0..5 |-> NULL]
NoMat == Mat(0, 0, <<>>)
NoQuery == [c |-> <<0, 0, 0>>, partId |-> 0, minSpec |-> 0, asked |-> FALSE]
NoPass == [ran |-> FALSE, palette |-> <<>>, luminanceFactor |-> 0,
           showMosaic |-> FALSE, chosen |-> <<>>]
NoStream == [buf |-> <<>>, pos |-> 1, eofbit |-> FALSE, failbit |-> FALSE]
NoCreate == [id |-> "", name |-> "", color |-> <<0, 0, 0>>,
             colorLab |-> <<0, 0, 0>>, availability |-> <<"", "", "", "">>]

\* ------------------------------------------------------------- inputs
\* the catalogue records the inputs are drawn from
Pool ==
  << ColorSpec("1", "White", <<255, 255, 255>>, <<"-", "+", "+", "+">>),
     ColorSpec("5", "Red", <<255, 0, 0>>, <<"-", "+", "-", "-">>),
     ColorSpec("23", "Blue", <<0, 0, 255>>, <<"-", "-", "-", "+">>),
     ColorSpec("7", "Grey", <<128, 128, 128>>, <<"-", "x", "+", "-">>),
     ColorSpec("28", "Green", <<0, 255, 0>>, <<"+", "-", "-", "-">>),
     ColorSpec("0", "Black", <<0, 0, 0>>, <<"+", "+", "+", "+">>) >>

\* the n records of the pool from the k-th on, cyclically
Rotation(k, n) == [i \in 1..n |-> Pool[((k + i - 2) % Len(Pool)) + 1]]
Catalogues == {Rotation(k, n) : k \in 1..Len(Pool), n \in 0..MaxPalette}

\* <<rows, cols, tilesLongSide>> of the images drawn: the shorter side a
\* multiple of tilesLongSide, as resizeToBeDivisible leaves it
Shapes == { <<6, 6, 2>>, <<6, 4, 2>>, <<7, 2, 2>>, <<3, 4, 1>>, <<2, 2, 2>> }

\* an image of one colour, and a pattern of the pool's colours
FlatImage(rows, cols, lab) ==
  Mat(rows, cols, [p \in (0..(rows - 1)) \X (0..(cols - 1)) |-> lab])
PatternImage(rows, cols, k) ==
  Mat(rows, cols, [p \in (0..(rows - 1)) \X (0..(cols - 1)) |->
                     Pool[((p[1] * k + p[2] + k) % Len(Pool)) + 1].colorLab])
Images(rows, cols) ==
  {FlatImage(rows, cols, Pool[i].colorLab) : i \in 1..MaxFlat}
    \cup {PatternImage(rows, cols, k) : k \in 1..MaxPattern}

\* values of the slider "Luminance importance" (0..1000, 500 at the start)
LuminanceFactors == {0, 500}

\* <<key, outName>>: the key pressed before this repaint and the output name
\* of the command line
Requests == { <<"3", "out">>, <<"p", "out">>, <<"other", "">> }

\* ------------------------------------------------------------- geometry
\* uint64_t tileHeight = mask.rows, tileWidth = mask.cols
tileHeight == mc.rows
tileWidth == mc.cols
\* uint64_t nrCols = image.cols / tileWidth + 2
MutNrColsNoSpare == image.cols \div tileWidth
nrCols == image.cols \div tileWidth + 2
\* the pixels of image that the Mat tile of tile (trow, tcol) covers
TilePixels(trow, tcol) ==
  { p \in Pixels(image) :
      /\ trow * tileHeight <= p[1] /\ p[1] < Min((trow + 1) * tileHeight, image.rows)
      /\ tcol * tileWidth <= p[2] /\ p[2] < Min((tcol + 1) * tileWidth, image.cols) }
\* mask.at<char>(it.pos()) of pixel p of that tile
MutGroupOfTransposed(trow, tcol, p) ==
  mc.px[<<p[2] - tcol * tileWidth, p[1] - trow * tileHeight>>]
GroupOf(trow, tcol, p) == mc.px[<<p[1] - trow * tileHeight, p[2] - tcol * tileWidth>>]

\* ------------------------------------------------------------- Init
InitPass ==
  /\ mc = NoMat
  /\ image = NoMat
  /\ currentRow = <<>>
  /\ nextRow = <<>>
  /\ rc = 0
  /\ cc = 0
  /\ groupValues = empty
  /\ avg = Uninit
  /\ ldFile = [open |-> FALSE, lines |-> <<>>]
  /\ partCounts = <<>>
  /\ disk = [ldr |-> NoFile, csv |-> NoFile]
  /\ lastStep = NoStep
  /\ steps = <<>>
  /\ chosen = <<>>
  /\ calls = <<>>
  /\ query = NoQuery
  /\ pressedKey = 0
  /\ caller = "main"
  /\ passLog = [n |-> 1, before |-> disk, last |-> NoPass]
  /\ result = NoMat

\* no catalogue file is being read
NoLoad ==
  /\ paletteFile = <<>>
  /\ in = NoStream
  /\ create = NoCreate

\* the program at a call of repaint(): the first one of main, or the one
\* after a key press (the key '3' sets writeLDrawFile, the key 'p' writePartList)
Init ==
  /\ palette \in Catalogues
  /\ luminanceFactor \in LuminanceFactors
  /\ amount = 100
  /\ threshold = 500
  /\ \E s \in Shapes :
       /\ tilesLongSide = s[3]
       /\ original \in Images(s[1], s[2])
  /\ showMosaic \in BOOLEAN
  /\ \E q \in Requests :
       /\ writeLDrawFile = (q[1] = "3")
       /\ writePartList = (q[1] = "p")
       /\ ldrawFileName = (IF q[2] = "" THEN "" ELSE q[2] \o ".ldr")
       /\ partList = (IF q[2] = "" THEN "" ELSE q[2] \o ".csv")
  /\ pc = "repaint"
  /\ InitPass
  /\ NoLoad

\* ------------------------------------------------------------- repaint
\* the loops that fill partCounts with nrOfParts zeros per ColorSpec
InitPartCounts(availableColors) ==
  LET names == {availableColors[i].name : i \in 1..Len(availableColors)}
      times(n) == Cardinality({i \in 1..Len(availableColors) :
                                 availableColors[i].name = n})
  IN [n \in names |-> [j \in 1..(nrOfParts * times(n)) |-> 0]]

\* where groupByMask's loops go from tile row trow, tile column tcol
LoopAt(trow, tcol, rows, cols, height, width) ==
  IF trow * height >= rows THEN "finish"
  ELSE IF tcol * width >= cols THEN "rowend"
  ELSE "tile"

\* repaint() up to the first tile: clone, circleMask, sharpen, open ldFile,
\* zero partCounts, and the head of groupByMask
MutRepaintFromImage ==
  /\ pc = "repaint"
  /\ LET clone == IF image = NoMat THEN original ELSE image
         mask == circleMask(tilesLongSide, Max(clone.rows, clone.cols))
         n == IF mask.cols = 0 THEN 0 ELSE clone.cols \div mask.cols + 2
     IN /\ mc' = mask
        /\ image' = sharpen(clone, amount, threshold)
        /\ IF ldrawFileName # "" /\ writeLDrawFile
           THEN /\ ldFile' = [open |-> TRUE, lines |-> <<>>]
                /\ disk' = [disk EXCEPT !.ldr = <<>>]
           ELSE UNCHANGED <<ldFile, disk>>
        /\ partCounts' = InitPartCounts(palette)
        /\ IF showMosaic /\ mask.cols = 0
           THEN \* image.cols / tileWidth divides by zero: the process is
                \* killed, or goes on with any quotient and r += 0
                /\ UNCHANGED bufVars
                /\ pc' \in {"crash", "hang"}
           ELSE IF showMosaic
           THEN /\ currentRow' = [i \in 0..(n - 1) |-> empty]
                /\ nextRow' = [i \in 0..(n - 1) |-> empty]
                /\ pc' = LoopAt(0, 0, clone.rows, clone.cols, mask.rows, mask.cols)
           ELSE /\ UNCHANGED bufVars
                /\ pc' = "finish"
  /\ rc' = 0
  /\ cc' = 0
  /\ UNCHANGED <<passFrame, flagVars, groupValues, avg, histVars>>

Repaint ==
  /\ pc = "repaint"
  /\ LET clone == original
         mask == circleMask(tilesLongSide, Max(clone.rows, clone.cols))
         n == IF mask.cols = 0 THEN 0 ELSE clone.cols \div mask.cols + 2
     IN /\ mc' = mask
        /\ image' = sharpen(clone, amount, threshold)
        /\ IF ldrawFileName # "" /\ writeLDrawFile
           THEN /\ ldFile' = [open |-> TRUE, lines |-> <<>>]
                /\ disk' = [disk EXCEPT !.ldr = <<>>]
           ELSE UNCHANGED <<ldFile, disk>>
        /\ partCounts' = InitPartCounts(palette)
        /\ IF showMosaic /\ mask.cols = 0
           THEN \* image.cols / tileWidth divides by zero: the process is
                \* killed, or goes on with any quotient and r += 0
                /\ UNCHANGED bufVars
                /\ pc' \in {"crash", "hang"}
           ELSE IF showMosaic
           THEN /\ currentRow' = [i \in 0..(n - 1) |-> empty]
                /\ nextRow' = [i \in 0..(n - 1) |-> empty]
                /\ pc' = LoopAt(0, 0, clone.rows, clone.cols, mask.rows, mask.cols)
           ELSE /\ UNCHANGED bufVars
                /\ pc' = "finish"
  /\ rc' = 0
  /\ cc' = 0
  /\ UNCHANGED <<passFrame, flagVars, groupValues, avg, histVars>>

\* ------------------------------------------------------------- groupByMask
\* the cell average: sum / max(count, 1), per channel
GroupValue(trow, tcol, group) ==
  LET S == {p \in TilePixels(trow, tcol) : GroupOf(trow, tcol, p) = group}
      count == Cardinality(S)
      sum(ch) == Sum([p \in S |-> image.px[p][ch]], S)
  IN <<Fix(sum(1), Max(count, 1)), Fix(sum(2), Max(count, 1)),
       Fix(sum(3), Max(count, 1))>>

\* the tile's Mat, the sums and counts, and groupValues
Aggregate ==
  /\ pc = "tile"
  /\ groupValues' = [group \in 0..5 |-> GroupValue(rc, cc, group)]
  /\ avg' = Uninit
  /\ steps' = <<>>
  /\ pc' = "q0"
  /\ UNCHANGED <<passFrame, flagVars, image, mc, bufVars, rc, cc, ldFile,
                 partCounts, disk, lastStep, chosen, calls>>

\* one statement  row[col][slot] += error * (w / 16.)
Deposit(row, col, slot, w) == [row |-> row, col |-> col, slot |-> slot, w |-> w]

\* the += statements of a list, in order
RECURSIVE Propagate(_, _, _, _)
Propagate(bufs, deposits, error, i) ==
  IF i > Len(deposits) THEN bufs
  ELSE LET d == deposits[i]
           old == bufs[d.row][d.col][d.slot]
       IN Propagate([bufs EXCEPT ![d.row][d.col][d.slot] =
                                    VAdd(old, VMul16(error, d.w))],
                    deposits, error, i + 1)

\* the += statements that follow the quantization of each cell
DepositsOf0(col) ==
  (IF col # 0 THEN <<Deposit("next", col - 1, 2, 3)>> ELSE <<>>)
    \o <<Deposit("current", col, 2, 5), Deposit("current", col, 5, 3)>>
MutDepositsOf4FloydSteinberg(col) ==
  <<Deposit("current", col, 2, 7), Deposit("next", col, 4, 5),
    Deposit("current", col, 5, 3), Deposit("current", col + 1, 4, 1)>>
DepositsOf4(col) ==
  <<Deposit("current", col, 2, 3), Deposit("next", col, 4, 4),
    Deposit("current", col, 5, 4), Deposit("current", col + 1, 4, 5)>>
DepositsOf2(col) ==
  <<Deposit("current", col + 1, 0, 7), Deposit("current", col, 5, 3),
    Deposit("current", col, 3, 5), Deposit("current", col + 1, 4, 1)>>
DepositsOf5(col) ==
  <<Deposit("current", col, 1, 3), Deposit("current", col, 3, 5),
    Deposit("current", col + 1, 0, 7), Deposit("current", col + 1, 1, 1)>>
MutDepositsOf1NoColumnBefore(col) ==
  <<Deposit("next", col, 0, 5), Deposit("next", col, 4, 1),
    Deposit("current", col, 3, 7)>>
DepositsOf1(col) ==
  (IF col # 0 THEN <<Deposit("next", col - 1, 2, 3)>> ELSE <<>>)
    \o <<Deposit("next", col, 0, 5), Deposit("next", col, 4, 1),
         Deposit("current", col, 3, 7)>>
MutDepositsOf3IntoOwnColumn(col) ==
  <<Deposit("current", col, 1, 7), Deposit("next", col, 4, 3),
    Deposit("next", col, 2, 5), Deposit("next", col + 1, 0, 1)>>
DepositsOf3(col) ==
  <<Deposit("current", col + 1, 1, 7), Deposit("next", col, 4, 3),
    Deposit("next", col, 2, 5), Deposit("next", col + 1, 0, 1)>>

\* one "quantize" block: the target, the query with its assert, the residual
\* and its propagation
Quantize(group, deposits, after) ==
  LET err == currentRow[cc]
      targetColor == VAdd(groupValues[group], err[group])
      part == groupIdToPart[group]
      spec == getSpecFromPalette(palette, luminanceFactor, targetColor, part)
      step == [group |-> group, rc |-> rc, cc |-> cc, targetColor |-> targetColor,
               part |-> part, spec |-> spec, error |-> emptyVec,
               deposits |-> <<>>]
  IN IF spec = NULL
     THEN \* assert(minSpec != nullptr) ends the process
          /\ pc' = "abort"
          /\ lastStep' = step
          /\ UNCHANGED <<avg, bufVars, steps>>
     ELSE LET error == VSub(targetColor, palette[spec].colorLab)
              bufs == Propagate([current |-> currentRow, next |-> nextRow],
                                deposits, error, 1)
          IN /\ avg' = [avg EXCEPT ![group] = spec]
             /\ currentRow' = bufs.current
             /\ nextRow' = bufs.next
             /\ lastStep' = [step EXCEPT !.error = error, !.deposits = deposits]
             /\ steps' = Append(steps, group)
             /\ pc' = after

quantFrame == <<passFrame, flagVars, image, mc, rc, cc, groupValues, ldFile,
                partCounts, disk, chosen, calls>>

\* quantize left upper 1x1
Quantize0 == pc = "q0" /\ Quantize(0, DepositsOf0(cc), "q4") /\ UNCHANGED quantFrame
\* quantize large circle
MutQuantize4SkipsCell2 ==
  pc = "q4" /\ Quantize(4, DepositsOf4(cc), "q5") /\ UNCHANGED quantFrame
Quantize4 == pc = "q4" /\ Quantize(4, DepositsOf4(cc), "q2") /\ UNCHANGED quantFrame
\* quantize right upper 1x1
Quantize2 == pc = "q2" /\ Quantize(2, DepositsOf2(cc), "q5") /\ UNCHANGED quantFrame
\* quantize small circle
Quantize5 == pc = "q5" /\ Quantize(5, DepositsOf5(cc), "q1") /\ UNCHANGED quantFrame
\* quantize left lower 1x1
Quantize1 == pc = "q1" /\ Quantize(1, DepositsOf1(cc), "q3") /\ UNCHANGED quantFrame
\* quantize right lower 1x1
Quantize3 == pc = "q3" /\ Quantize(3, DepositsOf3(cc), "write") /\ UNCHANGED quantFrame

\* ------------------------------------------------------------- outputs
HexDigits == <<"0", "1", "2", "3", "4", "5", "6", "7", "8", "9",
               "a", "b", "c", "d", "e", "f">>
\* std::hex << static_cast<int>(n): no leading zero, no padding
RECURSIVE Hex(_)
Hex(n) == IF n < 16 THEN HexDigits[n + 1]
          ELSE Hex(n \div 16) \o HexDigits[(n % 16) + 1]

\* one line of the build file
LDrawLine(spec, px, py, pz, dat) ==
  [color |-> "0x2" \o Hex(spec.color[1]) \o Hex(spec.color[2]) \o Hex(spec.color[3]),
   pos |-> <<px, py, pz>>, dat |-> dat]

\* writeLDrawFile(x, y, avgs, ldFile): the six lines it appends
MutLinesInQuantizationOrder(availableColors, x, y, avgs) ==
  << LDrawLine(availableColors[avgs[0]], y * 20 * 2 - 10, 0, -x * 20 * 2, "3024.dat"),
     LDrawLine(availableColors[avgs[4]], y * 20 * 2, -8, -x * 20 * 2 + 10, "18674.dat"),
     LDrawLine(availableColors[avgs[2]], y * 20 * 2 + 10, 0, -x * 20 * 2, "3024.dat"),
     LDrawLine(availableColors[avgs[5]], y * 20 * 2, -16, -x * 20 * 2 + 10, "6141.dat"),
     LDrawLine(availableColors[avgs[1]], y * 20 * 2 - 10, 0, -x * 20 * 2 + 20, "3024.dat"),
     LDrawLine(availableColors[avgs[3]], y * 20 * 2 + 10, 0, -x * 20 * 2 + 20, "3024.dat") >>
writeLDrawFileLines(availableColors, x, y, avgs) ==
  << LDrawLine(availableColors[avgs[5]], y * 20 * 2, -16, -x * 20 * 2 + 10, "6141.dat"),
     LDrawLine(availableColors[avgs[4]], y * 20 * 2, -8, -x * 20 * 2 + 10, "18674.dat"),
     LDrawLine(availableColors[avgs[0]], y * 20 * 2 - 10, 0, -x * 20 * 2, "3024.dat"),
     LDrawLine(availableColors[avgs[1]], y * 20 * 2 - 10, 0, -x * 20 * 2 + 20, "3024.dat"),
     LDrawLine(availableColors[avgs[2]], y * 20 * 2 + 10, 0, -x * 20 * 2, "3024.dat"),
     LDrawLine(availableColors[avgs[3]], y * 20 * 2 + 10, 0, -x * 20 * 2 + 20, "3024.dat") >>

\* the loop of the callback over the groups, from group on:
\*   part = mc.groupIdToPart[group]; color = avgs[part];
\*   partCounts[color->name][part] += 1
RECURSIVE CountParts(_, _, _, _)
CountParts(counts, availableColors, avgs, group) ==
  IF group >= nrGroups THEN counts
  ELSE LET part == groupIdToPart[group]
           color == availableColors[avgs[part]]
       IN CountParts([counts EXCEPT ![color.name][part + 1] = @ + 1],
                     availableColors, avgs, group + 1)

\* "write group values into image", then onTileDone(rc, cc, avg) and the
\* step of the column loop
WriteBack ==
  /\ pc = "write"
  /\ image' = [image EXCEPT !.px =
                 [p \in Pixels(image) |->
                    IF p \in TilePixels(rc, cc)
                    THEN palette[avg[GroupOf(rc, cc, p)]].colorLab
                    ELSE image.px[p]]]
  /\ IF ldrawFileName # "" /\ writeLDrawFile
     THEN ldFile' = [ldFile EXCEPT !.lines =
                       @ \o writeLDrawFileLines(palette, rc, cc, avg)]
     ELSE UNCHANGED ldFile
  /\ IF partList # "" /\ writePartList
     THEN partCounts' = CountParts(partCounts, palette, avg, 0)
     ELSE UNCHANGED partCounts
  /\ chosen' = [t \in (DOMAIN chosen) \cup {<<rc, cc>>} |->
                  IF t = <<rc, cc>> THEN avg ELSE chosen[t]]
  /\ calls' = Append(calls, <<rc, cc>>)
  /\ cc' = cc + 1
  /\ pc' = LoopAt(rc, cc + 1, image.rows, image.cols, tileHeight, tileWidth)
  /\ UNCHANGED <<passFrame, flagVars, mc, bufVars, rc, groupValues, avg, disk,
                 lastStep, steps>>

\* swap(currentRow, nextRow); nextRow.assign(nrCols, empty); the step of the
\* row loop
MutRowEndKeepsNextRow ==
  /\ pc = "rowend"
  /\ currentRow' = nextRow
  /\ nextRow' = nextRow
  /\ rc' = rc + 1
  /\ cc' = 0
  /\ pc' = LoopAt(rc + 1, 0, image.rows, image.cols, tileHeight, tileWidth)
  /\ UNCHANGED <<passFrame, flagVars, image, mc, groupValues, avg, ldFile,
                 partCounts, disk, histVars>>
RowEnd ==
  /\ pc = "rowend"
  /\ currentRow' = nextRow
  /\ nextRow' = [i \in 0..(nrCols - 1) |-> empty]
  /\ rc' = rc + 1
  /\ cc' = 0
  /\ pc' = LoopAt(rc + 1, 0, image.rows, image.cols, tileHeight, tileWidth)
  /\ UNCHANGED <<passFrame, flagVars, image, mc, groupValues, avg, ldFile,
                 partCounts, disk, histVars>>

\* the end of repaint(): the part-count file, and ldFile closed on return
Finish ==
  /\ pc = "finish"
  /\ disk' = [ldr |-> IF ldFile.open THEN ldFile.lines ELSE disk.ldr,
              csv |-> IF showMosaic /\ partList # "" /\ writePartList
                      THEN partCounts ELSE disk.csv]
  /\ ldFile' = [ldFile EXCEPT !.open = FALSE]
  /\ pc' = "done"
  /\ UNCHANGED <<passFrame, flagVars, image, mc, bufVars, rc, cc, groupValues,
                 avg, partCounts, histVars>>

Next ==
  \/ Repaint
  \/ Aggregate
  \/ Quantize0
  \/ Quantize4
  \/ Quantize2
  \/ Quantize5
  \/ Quantize1
  \/ Quantize3
  \/ WriteBack
  \/ RowEnd
  \/ Finish

Spec == Init /\ [][Next]_vars

\* ------------------------------------------------- the query on its own
\* the targets a query is asked for: inside and outside the catalogue's gamut
Targets == {<<l, a, b>> : l \in {-6, 0, 9, 16, 23, 32, 40},
                          a \in {-30, -14, 0, 12, 24},
                          b \in {-30, -14, 0, 12, 24}}

InitQuery ==
  /\ palette \in Catalogues
  /\ luminanceFactor \in LuminanceFactors \cup {1000}
  /\ amount = 100
  /\ threshold = 500
  /\ tilesLongSide = 1
  /\ original = NoMat
  /\ showMosaic = TRUE
  /\ writeLDrawFile = FALSE
  /\ writePartList = FALSE
  /\ ldrawFileName = ""
  /\ partList = ""
  /\ pc = "query"
  /\ InitPass
  /\ NoLoad

\* palette.getSpecFromPalette(c, partId), its assert included
Query ==
  /\ pc = "query"
  /\ \E c \in Targets, partId \in 0..(nrOfParts - 1) :
       LET minSpec == getSpecFromPalette(palette, luminanceFactor, c, partId)
       IN /\ query' = [c |-> c, partId |-> partId, minSpec |-> minSpec,
                       asked |-> TRUE]
          /\ pc' = IF minSpec = NULL THEN "abort" ELSE "answered"
  /\ UNCHANGED <<palette, luminanceFactor, amount, threshold, tilesLongSide,
                 original, image, flagVars, mc, bufVars, rc, cc, groupValues,
                 avg, ldFile, partCounts, disk, histVars, loadVars, mainVars,
                 resizeVars>>

SpecQuery == InitQuery /\ [][Query]_vars

\* ------------------------------------------------- Palette(paletteFile)
\* the characters of the lines a catalogue file is made of
\* the header line
HeaderLine ==
  <<"i", "d", ",", "n", "a", "m", "e", ",", "r", "g", "b", ",", "h", "e",
    "x", ",", "p", "l", "a", "t", "e", ",", "t", "i", "l", "e", ",", "r",
    "o", "u", "n", "d", ",", "r", "o", "u", "n", "d", "2", "\n">>
\* 1,White,"255, 255, 255",FFFFFF,-,+,+,+
LineWhite ==
  <<"1", ",", "W", "h", "i", "t", "e", ",", "\"", "2", "5", "5", ",", " ",
    "2", "5", "5", ",", " ", "2", "5", "5", "\"", ",", "F", "F", "F", "F",
    "F", "F", ",", "-", ",", "+", ",", "+", ",", "+", "\n">>
\* 5,Red,"255, 0, 0",FF0000,-,+,-,-
LineRed ==
  <<"5", ",", "R", "e", "d", ",", "\"", "2", "5", "5", ",", " ", "0", ",",
    " ", "0", "\"", ",", "F", "F", "0", "0", "0", "0", ",", "-", ",", "+",
    ",", "-", ",", "-", "\n">>
\* 23,Blue,"0, 0, 255",0000FF,-,-,-,+
LineBlue ==
  <<"2", "3", ",", "B", "l", "u", "e", ",", "\"", "0", ",", " ", "0", ",",
    " ", "2", "5", "5", "\"", ",", "0", "0", "0", "0", "F", "F", ",", "-",
    ",", "-", ",", "-", ",", "+", "\n">>
\* a colour channel that is no number: 9,Bad,"x, 0, 0",000000,+,+,+,+
LineBadChannel ==
  <<"9", ",", "B", "a", "d", ",", "\"", "x", ",", " ", "0", ",", " ", "0",
    "\"", ",", "0", "0", "0", "0", "0", "0", ",", "+", ",", "+", ",", "+",
    ",", "+", "\n">>
\* a line that ends after the name: 9,Short
LineShort ==
  <<"9", ",", "S", "h", "o", "r", "t", "\n">>
\* a colour without its quotes: 9,NoQ,0,0,0,000000,+,+,+,+
LineNoQuotes ==
  <<"9", ",", "N", "o", "Q", ",", "0", ",", "0", ",", "0", ",", "0", "0",
    "0", "0", "0", "0", ",", "+", ",", "+", ",", "+", ",", "+", "\n">>
\* one availability field too few: 9,Few,"0, 0, 0",000000,+,+,+
LineFewFlags ==
  <<"9", ",", "F", "e", "w", ",", "\"", "0", ",", " ", "0", ",", " ", "0",
    "\"", ",", "0", "0", "0", "0", "0", "0", ",", "+", ",", "+", ",", "+",
    "\n">>

\* a line of the file: its characters, whether it is a well-formed record,
\* and the ColorSpec a well-formed one describes
RecordKinds ==
  { [text |-> LineWhite, wellFormed |-> TRUE, spec |-> Pool[1]],
    [text |-> LineRed, wellFormed |-> TRUE, spec |-> Pool[2]],
    [text |-> LineBlue, wellFormed |-> TRUE, spec |-> Pool[3]],
    [text |-> LineBadChannel, wellFormed |-> FALSE, spec |-> NoCreate],
    [text |-> LineShort, wellFormed |-> FALSE, spec |-> NoCreate],
    [text |-> LineNoQuotes, wellFormed |-> FALSE, spec |-> NoCreate],
    [text |-> LineFewFlags, wellFormed |-> FALSE, spec |-> NoCreate] }

\* the catalogue files drawn as inputs: a missing file, and a header line
\* followed by up to MaxRecords lines, the last one with or without its
\* line end
Files ==
  {[exists |-> FALSE, records |-> <<>>, finalNewline |-> TRUE]}
    \cup {[exists |-> TRUE, records |-> r, finalNewline |-> n] :
            r \in UNION {[1..k -> RecordKinds] : k \in 0..MaxRecords},
            n \in BOOLEAN}

RECURSIVE Concat(_, _)
Concat(records, i) ==
  IF i > Len(records) THEN <<>> ELSE records[i].text \o Concat(records, i + 1)
\* the characters of a file
Content(file) ==
  LET all == HeaderLine \o Concat(file.records, 1)
  IN IF file.finalNewline THEN all ELSE SubSeq(all, 1, Len(all) - 1)

\* ifstream in(paletteFile): a file that cannot be opened sets failbit
Open(file) ==
  IF file.exists
    THEN [buf |-> Content(file), pos |-> 1, eofbit |-> FALSE, failbit |-> FALSE]
    ELSE [buf |-> <<>>, pos |-> 1, eofbit |-> FALSE, failbit |-> TRUE]

\* std::basic_ios::good()
good(s) == ~s.eofbit /\ ~s.failbit
Digits == <<"0", "1", "2", "3", "4", "5", "6", "7", "8", "9">>
DigitValue(ch) == (CHOOSE d \in 1..10 : Digits[d] = ch) - 1
\* the characters of std::isspace in the "C" locale that the files hold
Spaces == {" ", "\n", "\t", "\r"}
\* the first position from `from` on whose character is in (is not in) S, or
\* the position after the last character
FirstIn(buf, from, S) ==
  LET P == {j \in from..Len(buf) : buf[j] \in S}
  IN IF P = {} THEN Len(buf) + 1 ELSE CHOOSE j \in P : \A k \in P : j <= k
FirstNotIn(buf, from, S) ==
  LET P == {j \in from..Len(buf) : buf[j] \notin S}
  IN IF P = {} THEN Len(buf) + 1 ELSE CHOOSE j \in P : \A k \in P : j <= k
RECURSIVE Join(_)
Join(t) == IF t = <<>> THEN "" ELSE Head(t) \o Join(Tail(t))
RECURSIVE Decimal(_, _, _, _)
\* the number the digits buf[from..to] spell, capped above the uint16_t range
Decimal(buf, from, to, acc) ==
  IF from > to THEN acc
  ELSE Decimal(buf, from + 1, to, Min(acc * 10 + DigitValue(buf[from]), 65536))

\* in.ignore(numeric_limits<streamsize>::max(), delim): discards up to and
\* with the delimiter; the end of the file sets eofbit only
ignore(s, delim) ==
  IF ~good(s) THEN [s EXCEPT !.failbit = TRUE]
  ELSE LET j == FirstIn(s.buf, s.pos, {delim})
       IN IF j <= Len(s.buf)
            THEN [s EXCEPT !.pos = j + 1]
            ELSE [s EXCEPT !.pos = j, !.eofbit = TRUE]

\* getline(in, str, delim): the characters up to the delimiter, which is
\* discarded; failbit when no character at all is extracted
getline(s, str, delim) ==
  IF ~good(s) THEN [in |-> [s EXCEPT !.failbit = TRUE], val |-> str]
  ELSE LET j == FirstIn(s.buf, s.pos, {delim})
       IN IF j <= Len(s.buf)
            THEN [in |-> [s EXCEPT !.pos = j + 1],
                  val |-> Join(SubSeq(s.buf, s.pos, j - 1))]
            ELSE [in |-> [s EXCEPT !.pos = j, !.eofbit = TRUE,
                                   !.failbit = (s.pos > Len(s.buf))],
                  val |-> Join(SubSeq(s.buf, s.pos, Len(s.buf)))]

\* in >> uint16_t: white space is skipped, then an optional sign and the
\* decimal digits are read; no digit, or a value out of range, sets failbit
ExtractUint16(s, val) ==
  IF ~good(s) THEN [in |-> [s EXCEPT !.failbit = TRUE], val |-> val]
  ELSE
    LET p1 == FirstNotIn(s.buf, s.pos, Spaces)
        p2 == IF p1 <= Len(s.buf) /\ s.buf[p1] \in {"+", "-"} THEN p1 + 1 ELSE p1
        p3 == FirstNotIn(s.buf, p2, {Digits[d] : d \in 1..10})
        n == Decimal(s.buf, p2, p3 - 1, 0)
        to == [s EXCEPT !.pos = p3, !.eofbit = (p3 > Len(s.buf))]
    IN IF p1 > Len(s.buf)
         THEN [in |-> [s EXCEPT !.pos = p1, !.eofbit = TRUE, !.failbit = TRUE],
               val |-> val]
       ELSE IF p3 = p2
         THEN [in |-> [to EXCEPT !.failbit = TRUE], val |-> 0]
       ELSE IF n > 65535
         THEN [in |-> [to EXCEPT !.failbit = TRUE], val |-> 65535]
       ELSE [in |-> to,
             val |-> IF p2 > p1 /\ s.buf[p1] = "-" THEN (65536 - n) % 65536 ELSE n]

\* in >> uint8_t: white space is skipped, then one character is read
ExtractUint8(s, val) ==
  IF ~good(s) THEN [in |-> [s EXCEPT !.failbit = TRUE], val |-> val]
  ELSE LET p1 == FirstNotIn(s.buf, s.pos, Spaces)
       IN IF p1 > Len(s.buf)
            THEN [in |-> [s EXCEPT !.pos = p1, !.eofbit = TRUE, !.failbit = TRUE],
                  val |-> val]
            ELSE [in |-> [s EXCEPT !.pos = p1 + 1], val |-> s.buf[p1]]

\* the operands of the && chain of the while condition, in order
Condition ==
  << [op |-> "getline", delim |-> ",", field |-> <<"id">>],
     [op |-> "getline", delim |-> ",", field |-> <<"name">>],
     [op |-> "ignore", delim |-> "\"", field |-> <<>>],
     [op |-> "uint16", delim |-> "", field |-> <<"color", 1>>],
     [op |-> "ignore", delim |-> ",", field |-> <<>>],
     [op |-> "uint16", delim |-> "", field |-> <<"color", 2>>],
     [op |-> "ignore", delim |-> ",", field |-> <<>>],
     [op |-> "uint16", delim |-> "", field |-> <<"color", 3>>],
     [op |-> "ignore", delim |-> "\"", field |-> <<>>],
     [op |-> "ignore", delim |-> ",", field |-> <<>>],
     [op |-> "ignore", delim |-> ",", field |-> <<>>],
     [op |-> "uint8", delim |-> "", field |-> <<"availability", 1>>],
     [op |-> "ignore", delim |-> ",", field |-> <<>>],
     [op |-> "uint8", delim |-> "", field |-> <<"availability", 2>>],
     [op |-> "ignore", delim |-> ",", field |-> <<>>],
     [op |-> "uint8", delim |-> "", field |-> <<"availability", 3>>],
     [op |-> "ignore", delim |-> ",", field |-> <<>>],
     [op |-> "uint8", delim |-> "", field |-> <<"availability", 4>>],
     [op |-> "ignore", delim |-> "\n", field |-> <<>>] >>

\* create.<field>
Get(spec, field) ==
  IF Len(field) = 1 THEN spec[field[1]] ELSE spec[field[1]][field[2]]
Set(spec, field, val) ==
  IF Len(field) = 1 THEN [spec EXCEPT ![field[1]] = val]
  ELSE [spec EXCEPT ![field[1]][field[2]] = val]

\* one operand of the chain, on the stream and on create
Operand(o, s, spec) ==
  CASE o.op = "ignore" -> [in |-> ignore(s, o.delim), create |-> spec]
    [] o.op = "getline" ->
         LET r == getline(s, Get(spec, o.field), o.delim)
         IN [in |-> r.in, create |-> Set(spec, o.field, r.val)]
    [] o.op = "uint16" ->
         LET r == ExtractUint16(s, Get(spec, o.field))
         IN [in |-> r.in, create |-> Set(spec, o.field, r.val)]
    [] o.op = "uint8" ->
         LET r == ExtractUint8(s, Get(spec, o.field))
         IN [in |-> r.in, create |-> Set(spec, o.field, r.val)]

RECURSIVE WhileCondition(_, _, _)
\* the while condition from its k-th operand on: it stops at the first
\* operand that leaves the stream failed
WhileCondition(s, spec, k) ==
  IF k > Len(Condition) THEN [in |-> s, create |-> spec, holds |-> TRUE]
  ELSE LET r == Operand(Condition[k], s, spec)
       IN IF r.in.failbit
            THEN [in |-> r.in, create |-> r.create, holds |-> FALSE]
            ELSE WhileCondition(r.in, r.create, k + 1)

\* the constructor is entered: the stream is open on the file, create is
\* default-constructed (its numbers are not read before they are assigned)
InitLoad ==
  /\ paletteFile \in Files
  /\ in = Open(paletteFile)
  /\ create = NoCreate
  /\ palette = <<>>
  /\ luminanceFactor = 500
  /\ amount = 100
  /\ threshold = 500
  /\ tilesLongSide = 1
  /\ original = NoMat
  /\ showMosaic = TRUE
  /\ writeLDrawFile = FALSE
  /\ writePartList = FALSE
  /\ ldrawFileName = ""
  /\ partList = ""
  /\ pc = "ctor"
  /\ InitPass

loadFrame == <<luminanceFactor, amount, threshold, tilesLongSide, original,
               image, flagVars, mc, bufVars, rc, cc, groupValues, avg, ldFile,
               partCounts, disk, histVars, query, paletteFile, mainVars,
               resizeVars>>

\* skip header line
SkipHeader ==
  /\ pc = "ctor"
  /\ in' = ignore(in, "\n")
  /\ pc' = "while"
  /\ UNCHANGED <<loadFrame, palette, create>>

\* one turn of the loop: the condition holds and create is pushed back
ParseRecord ==
  /\ pc = "while"
  /\ LET r == WhileCondition(in, create, 1)
     IN /\ r.holds
        /\ in' = r.in
        /\ create' = r.create
        /\ palette' = Append(palette, r.create)
  /\ UNCHANGED <<loadFrame, pc>>

\* the condition fails: the loop is left
LoopExit ==
  /\ pc = "while"
  /\ LET r == WhileCondition(in, create, 1)
     IN /\ ~r.holds
        /\ in' = r.in
        /\ create' = r.create
  /\ pc' = "convert"
  /\ UNCHANGED <<loadFrame, palette>>

\* the colours of the loaded records, as 8-bit channels, are converted to Lab
ConvertLab ==
  /\ pc = "convert"
  /\ palette' = [i \in 1..Len(palette) |->
       [palette[i] EXCEPT !.colorLab =
          BGR2Lab(<<palette[i].color[1] % 256, palette[i].color[2] % 256,
                    palette[i].color[3] % 256>>)]]
  /\ pc' = "loaded"
  /\ UNCHANGED <<loadFrame, in, create>>

NextLoad == SkipHeader \/ ParseRecord \/ LoopExit \/ ConvertLab

SpecLoad == InitLoad /\ [][NextLoad]_vars

\* ------------------------------------------------- main's key loop
\* the catalogue file at the times it is read: it gives a swatch to every
\* category in use, or none to category 2
MainCatalogues == {Rotation(1, MaxPalette), Rotation(2, 2)}
\* waitKey(0): '3', 'p', 'm', any other key, Esc (or q)
Keys == {"3", "p", "m", "s", "Esc"}
\* no part-count file on disk, as a value that no map partCounts equals
NoPartList == [missing |-> <<>>]
\* files an earlier run of the program has left under the output name
OldFiles ==
  [ldr |-> <<LDrawLine(Pool[6], 0, 0, 0, "3024.dat")>>,
   csv |-> [Black |-> <<0, 1, 0, 0>>]]

\* main up to its first repaint(): no flag is set, the mosaic is shown
InitMain ==
  /\ palette \in MainCatalogues
  /\ luminanceFactor = 500
  /\ amount = 100
  /\ threshold = 500
  /\ tilesLongSide = 2
  /\ original = PatternImage(6, 6, 1)
  /\ showMosaic = TRUE
  /\ writeLDrawFile = FALSE
  /\ writePartList = FALSE
  /\ \E outName \in {"", "out"} :
       /\ ldrawFileName = (IF outName = "" THEN "" ELSE outName \o ".ldr")
       /\ partList = (IF outName = "" THEN "" ELSE outName \o ".csv")
       /\ \/ disk = [ldr |-> NoFile, csv |-> NoPartList]
          \/ outName # "" /\ disk = OldFiles
  /\ mc = NoMat
  /\ image = NoMat
  /\ currentRow = <<>>
  /\ nextRow = <<>>
  /\ rc = 0
  /\ cc = 0
  /\ groupValues = empty
  /\ avg = Uninit
  /\ ldFile = [open |-> FALSE, lines |-> <<>>]
  /\ partCounts = <<>>
  /\ lastStep = NoStep
  /\ steps = <<>>
  /\ chosen = <<>>
  /\ calls = <<>>
  /\ query = NoQuery
  /\ pressedKey = 0
  /\ caller = "main"
  /\ passLog = [n |-> 1, before |-> disk, last |-> NoPass]
  /\ result = NoMat
  /\ pc = "repaint"
  /\ NoLoad

\* repaint() is called once more: the history of the pass starts anew
StartPass ==
  /\ pc' = "repaint"
  /\ passLog' = [passLog EXCEPT !.n = @ + 1, !.before = disk]
  /\ lastStep' = NoStep
  /\ steps' = <<>>
  /\ chosen' = <<>>
  /\ calls' = <<>>

\* the body of the key loop up to repaint(): the flags are set from the key,
\* the catalogue is read again from its file, 'm' toggles the mosaic
KeyPress ==
  /\ pc = "wait"
  /\ passLog.n < MaxPasses
  /\ \E key \in Keys, file \in MainCatalogues :
       /\ pressedKey' = key
       /\ writeLDrawFile' = (key = "3")
       /\ writePartList' = (key = "p")
       /\ palette' = file
       /\ showMosaic' = (IF key = "m" THEN ~showMosaic ELSE showMosaic)
  /\ caller' = "key"
  /\ StartPass
  /\ UNCHANGED <<luminanceFactor, amount, threshold, tilesLongSide, original,
                 image, ldrawFileName, partList, mc, bufVars, rc, cc,
                 groupValues, avg, ldFile, partCounts, disk, query, loadVars,
                 resizeVars>>

\* on_trackbar: the slider has stored its new value, repaint() is called
Trackbar ==
  /\ pc = "wait"
  /\ passLog.n < MaxPasses
  /\ luminanceFactor' \in LuminanceFactors \ {luminanceFactor}
  /\ caller' = "trackbar"
  /\ StartPass
  /\ UNCHANGED <<palette, amount, threshold, tilesLongSide, original, image,
                 flagVars, mc, bufVars, rc, cc, groupValues, avg, ldFile,
                 partCounts, disk, query, loadVars, pressedKey, resizeVars>>

\* repaint() returns: the key loop clears both flags and tests the key; main
\* and on_trackbar go on to wait for input
Return ==
  /\ pc = "done"
  /\ passLog' = [passLog EXCEPT !.last =
                   [ran |-> TRUE, palette |-> palette,
                    luminanceFactor |-> luminanceFactor,
                    showMosaic |-> showMosaic, chosen |-> chosen]]
  /\ IF caller = "key"
     THEN /\ writeLDrawFile' = FALSE
          /\ writePartList' = FALSE
          /\ pc' = (IF pressedKey = "Esc" THEN "exit" ELSE "wait")
     ELSE /\ UNCHANGED <<writeLDrawFile, writePartList>>
          /\ pc' = "wait"
  /\ UNCHANGED <<palette, luminanceFactor, amount, threshold, tilesLongSide,
                 original, image, showMosaic, ldrawFileName, partList, mc,
                 bufVars, rc, cc, groupValues, avg, ldFile, partCounts, disk,
                 histVars, query, loadVars, pressedKey, caller, resizeVars>>

NextMain == Next \/ KeyPress \/ Trackbar \/ Return

SpecMain == InitMain /\ [][NextMain]_vars

\* ------------------------------------------------- resizeToBeDivisible
\* the sizes and tile counts the function is called with: images of a colour
\* of the pool, as imread returns them
ImageSizes == (1..MaxSide) \X (1..MaxSide)
TileCounts == 1..MaxTiles

\* resize(image, result, Size(cols, rows)): every element of the result is
\* the element of the source at the same relative position
resize(img, cols, rows) ==
  Mat(rows, cols,
      [p \in (0..(rows - 1)) \X (0..(cols - 1)) |->
         img.px[<<(p[1] * img.rows) \div rows, (p[2] * img.cols) \div cols>>]])

\* Size(cols, rows) of the result
ResizedSize(img, tiles) ==
  IF img.rows < img.cols
  THEN LET rest == img.rows % tiles
           rows == img.rows - rest
       IN [rows |-> rows, cols |-> (img.cols * rows) \div img.rows]
  ELSE LET rest == img.cols % tiles
           cols == img.cols - rest
       IN [rows |-> (img.rows * cols) \div img.cols, cols |-> cols]

\* main has read the image and the tile count
InitResize ==
  /\ palette = Rotation(1, 1)
  /\ luminanceFactor = 500
  /\ amount = 100
  /\ threshold = 500
  /\ tilesLongSide \in TileCounts
  /\ \E size \in ImageSizes, i \in 1..MaxFlat :
       original = FlatImage(size[1], size[2], Pool[i].color)
  /\ showMosaic = TRUE
  /\ writeLDrawFile = FALSE
  /\ writePartList = FALSE
  /\ ldrawFileName = ""
  /\ partList = ""
  /\ pc = "resize"
  /\ InitPass
  /\ NoLoad

\* original = resizeToBeDivisible(original); cv::resize throws on an empty
\* size, and nothing catches it
ResizeToBeDivisible ==
  /\ pc = "resize"
  /\ LET size == ResizedSize(original, tilesLongSide)
     IN IF size.rows = 0 \/ size.cols = 0
        THEN /\ pc' = "terminate"
             /\ UNCHANGED result
        ELSE /\ result' = resize(original, size.cols, size.rows)
             /\ pc' = "resized"
  /\ UNCHANGED <<palette, luminanceFactor, amount, threshold, tilesLongSide,
                 original, image, flagVars, mc, bufVars, rc, cc, groupValues,
                 avg, ldFile, partCounts, disk, histVars, query, loadVars,
                 mainVars>>

SpecResize == InitResize /\ [][ResizeToBeDivisible]_vars

\* ------------------------------------------------- a pass on any image
\* the sizes and tile counts a pass is run with, the tile count above the
\* long side of the image included
PassSizes == (1..MaxPassSide) \X (1..MaxPassSide)
PassTileCounts == 1..(MaxPassSide + 1)

\* repaint() is called on an image of any size with any tile count and a
\* catalogue that has a swatch for each of the categories 1, 2 and 3
InitTiles ==
  /\ palette = Rotation(1, 3)
  /\ luminanceFactor = 500
  /\ amount = 100
  /\ threshold = 500
  /\ tilesLongSide \in PassTileCounts
  /\ \E size \in PassSizes : original \in Images(size[1], size[2])
  /\ showMosaic = TRUE
  /\ writeLDrawFile = FALSE
  /\ writePartList = FALSE
  /\ ldrawFileName = ""
  /\ partList = ""
  /\ pc = "repaint"
  /\ InitPass
  /\ NoLoad

SpecTiles == InitTiles /\ [][Next]_vars

\* ------------------------------------------------------------- claims
\* what the claims say of a catalogue record, read off the record itself
HasFlag(spec, category) == spec.availability[category + 1] = "+"
Eligible(category) == {i \in 1..Len(palette) : HasFlag(palette[i], category)}
\* luminanceFactor / 500 * dL^2 + da^2 + db^2, times 500
WeightedDistance(c, lab) ==
  luminanceFactor * (c[1] - lab[1]) * (c[1] - lab[1])
    + 500 * (c[2] - lab[2]) * (c[2] - lab[2])
    + 500 * (c[3] - lab[3]) * (c[3] - lab[3])

\* C1: whenever at least one swatch is eligible for the category asked, the
\* query returns a swatch whose flag for the category is '+', and no eligible
\* swatch is strictly nearer to the target in the weighted distance.
C1_NearestEligible ==
  (query.asked /\ Eligible(query.partId) # {}) =>
    /\ query.minSpec \in Eligible(query.partId)
    /\ \A i \in Eligible(query.partId) :
         WeightedDistance(query.c, palette[query.minSpec].colorLab)
           <= WeightedDistance(query.c, palette[i].colorLab)

\* C1 witness: a swatch was returned although a swatch that is not eligible
\* is strictly nearer to the target.
C1_Witness ==
  /\ query.asked
  /\ query.minSpec # NULL
  /\ \E j \in 1..Len(palette) :
       /\ ~HasFlag(palette[j], query.partId)
       /\ WeightedDistance(query.c, palette[j].colorLab)
            < WeightedDistance(query.c, palette[query.minSpec].colorLab)

\* the shape category the template gives each cell: cells 0-3 small flat
\* pieces (1), cell 4 the large round piece (3), cell 5 the small round one (2)
CategoryOfCell(cell) == IF cell = 4 THEN 3 ELSE IF cell = 5 THEN 2 ELSE 1

Quantized == lastStep.group # -1
\* the tiles of the image, and the tile of a pixel
TileRows == (image.rows + tileHeight - 1) \div tileHeight
TileCols == (image.cols + tileWidth - 1) \div tileWidth
Tiles == (0..(TileRows - 1)) \X (0..(TileCols - 1))
Completed == pc = "done" /\ showMosaic

\* C2: when no swatch is eligible for the category a cell asks for, the query
\* returns no swatch and the pass ends at that cell: the cell gets no swatch,
\* its tile is neither written back nor handed to the callback, and no
\* further step of the pass can be taken.
C2_AbortsWithoutFallback ==
  (Quantized /\ Eligible(CategoryOfCell(lastStep.group)) = {}) =>
    /\ pc = "abort"
    /\ lastStep.spec = NULL
    /\ avg[lastStep.group] = NULL
    /\ <<lastStep.rc, lastStep.cc>> \notin DOMAIN chosen
    /\ <<lastStep.rc, lastStep.cc>> \notin {calls[i] : i \in 1..Len(calls)}
    /\ \A p \in TilePixels(lastStep.rc, lastStep.cc) :
         image.px[p] = sharpen(original, amount, threshold).px[p]
    /\ ~ENABLED Next

\* C2 witness: the pass has ended at a cell for whose category nothing is
\* eligible, after other cells of the tile had been quantized.
C2_Witness ==
  /\ pc = "abort"
  /\ Eligible(CategoryOfCell(lastStep.group)) = {}
  /\ Len(palette) > 0
  /\ steps # <<>>

\* C3: in every tile handed to the callback, the swatches of cells 0..3 are
\* available for category 1, that of cell 4 for category 3 and that of cell 5
\* for category 2.
C3_CellsGetTheirCategory ==
  \A t \in DOMAIN chosen :
    /\ \A cell \in 0..3 : HasFlag(palette[chosen[t][cell]], 1)
    /\ HasFlag(palette[chosen[t][4]], 3)
    /\ HasFlag(palette[chosen[t][5]], 2)

\* C3 witness: a completed pass over several tiles with a catalogue in which
\* some swatch is not available for every category, and a tile that started
\* with error carried into it.
C3_Witness ==
  /\ Completed
  /\ Cardinality(DOMAIN chosen) > 1
  /\ \E i \in 1..Len(palette) : ~HasFlag(palette[i], 1)
  /\ lastStep.targetColor # groupValues[lastStep.group]

\* the sum of the weights (in sixteenths) of the deposits of a step
RECURSIVE WeightSum(_)
WeightSum(deposits) ==
  IF deposits = <<>> THEN 0 ELSE Head(deposits).w + WeightSum(Tail(deposits))

\* C4: the weights with which a quantization step adds its residual to its
\* destinations sum to 16/16, or to 13/16 for a tile in column 0.
C4_WeightsSumToOne ==
  (Quantized /\ lastStep.spec # NULL) =>
    \/ WeightSum(lastStep.deposits) = 16
    \/ lastStep.cc = 0 /\ WeightSum(lastStep.deposits) = 13

\* C5: after a completed pass every tile has a swatch for each of its six
\* cells, and every pixel holds the Lab colour of the swatch of the cell that
\* the stencil gives the pixel's position in its tile.
C5_PixelsHoldCellSwatch ==
  Completed =>
    /\ DOMAIN chosen = Tiles
    /\ \A t \in Tiles : \A cell \in 0..5 : chosen[t][cell] \in 1..Len(palette)
    /\ \A p \in Pixels(image) :
         LET t == <<p[1] \div tileHeight, p[2] \div tileWidth>>
             cell == mc.px[<<p[1] % tileHeight, p[2] % tileWidth>>]
         IN image.px[p] = palette[chosen[t][cell]].colorLab

\* C5 witness: a completed pass over an image whose last tile column is
\* clipped, so that cells of those tiles cover no pixel, and whose pixels got
\* more than one colour.
C5_Witness ==
  /\ Completed
  /\ image.cols % tileWidth # 0
  /\ TileRows > 1
  /\ \E p, q \in Pixels(image) : image.px[p] # image.px[q]

\* the catalogue swatches that are available for the categories 1, 2 and 3
\* and whose Lab colour every pixel of the source image has
FlatSwatches ==
  {i \in 1..Len(palette) :
     /\ HasFlag(palette[i], 1) /\ HasFlag(palette[i], 2) /\ HasFlag(palette[i], 3)
     /\ \A p \in Pixels(original) : original.px[p] = palette[i].colorLab}
InPass == showMosaic /\ pc \notin {"repaint", "query", "answered"}
\* every step so far chose a swatch of the given colour and left no residual,
\* and all slots of both buffers are zero
NoErrorAnywhere(lab) ==
  /\ Quantized =>
       /\ lastStep.spec # NULL
       /\ palette[lastStep.spec].colorLab = lab
       /\ lastStep.error = <<0, 0, 0>>
  /\ \A t \in DOMAIN chosen : \A cell \in 0..5 :
       palette[chosen[t][cell]].colorLab = lab
  /\ \A i \in DOMAIN currentRow : \A cell \in 0..5 :
       currentRow[i][cell] = <<0, 0, 0>> /\ nextRow[i][cell] = <<0, 0, 0>>
\* every tile of the image covers at least one pixel of each of the six cells
AllCellsCovered ==
  \A t \in Tiles : \A cell \in 0..5 :
    \E p \in TilePixels(t[1], t[2]) :
      mc.px[<<p[1] - t[1] * tileHeight, p[2] - t[2] * tileWidth>>] = cell

\* C6 as stated: on an image of the colour of a swatch S that is available for
\* the categories 1, 2 and 3, every cell is quantized to S's colour, every
\* residual is zero and every slot of currentRow and nextRow stays zero.
C6_FlatIdempotent ==
  (InPass /\ FlatSwatches # {}) => NoErrorAnywhere(original.px[<<0, 0>>])

\* C6 amended: the same, for images whose every tile covers at least one
\* pixel of each of the six cells, and a luminance weight above zero.
C6_FlatIdempotentCovered ==
  (InPass /\ FlatSwatches # {} /\ luminanceFactor > 0 /\ AllCellsCovered)
    => NoErrorAnywhere(original.px[<<0, 0>>])

\* C6 witness: a completed pass over such an image of several tiles, with a
\* catalogue that offers other swatches too.
C6_Witness ==
  /\ Completed
  /\ FlatSwatches # {}
  /\ luminanceFactor > 0
  /\ AllCellsCovered
  /\ Cardinality(Tiles) = 4
  /\ Len(palette) > 1
  /\ \E i \in 1..Len(palette) : i \notin FlatSwatches /\ HasFlag(palette[i], 1)

\* C8: with the build file requested, a completed pass leaves six lines per
\* tile, the tiles in raster order, the lines of a tile for the cells
\* 5, 4, 0, 1, 2, 3 in this order, each with the source colour of the swatch
\* chosen for that cell of that tile.
CellOrder == <<5, 4, 0, 1, 2, 3>>
\* the tile (x, y) whose coordinates a line carries
TileOfLine(line) == <<(20 - line.pos[3]) \div 40, (line.pos[1] + 10) \div 40>>
C8_SixLinesPerTileInOrder ==
  (Completed /\ ldrawFileName # "" /\ writeLDrawFile) =>
    /\ Len(disk.ldr) = 6 * Cardinality(Tiles)
    /\ \A i \in 0..(Cardinality(Tiles) - 1) : \A j \in 1..6 :
         LET t == <<i \div TileCols, i % TileCols>>
             line == disk.ldr[6 * i + j]
             swatch == palette[chosen[t][CellOrder[j]]]
         IN /\ line.color = "0x2" \o Hex(swatch.color[1])
                              \o Hex(swatch.color[2]) \o Hex(swatch.color[3])
            /\ TileOfLine(line) = t

\* C8 witness: a requested build file of a completed pass over four tiles,
\* in one of which the cells 5 and 0 got different swatches.
C8_Witness ==
  /\ Completed
  /\ ldrawFileName # ""
  /\ writeLDrawFile
  /\ Len(disk.ldr) = 24
  /\ \E t \in Tiles : chosen[t][5] # chosen[t][0]

\* C9: with the part list requested, after the pass count[n][p] is the number
\* of (tile, cell) pairs whose cell has category p and whose swatch is named n.
C9_CountsMatchChosen ==
  (Completed /\ partList # "" /\ writePartList) =>
    \A n \in DOMAIN disk.csv : \A p \in 0..3 :
      disk.csv[n][p + 1] =
        Cardinality({tc \in Tiles \X (0..5) :
                       /\ CategoryOfCell(tc[2]) = p
                       /\ palette[chosen[tc[1]][tc[2]]].name = n})

\* ------------------------------------------------- the end-to-end scenario
\* the catalogues of the four pool records that are available for one
\* category each, in every order
ExclusiveCatalogues ==
  {<<Pool[i[1]], Pool[i[2]], Pool[i[3]], Pool[i[4]]>> :
     i \in {j \in (2..5) \X (2..5) \X (2..5) \X (2..5) :
              Cardinality({j[1], j[2], j[3], j[4]}) = 4}}

\* a 2x2-tile image of the colour of one of the catalogue's swatches
InitE2E ==
  /\ palette \in ExclusiveCatalogues
  /\ luminanceFactor \in LuminanceFactors
  /\ amount = 100
  /\ threshold = 500
  /\ tilesLongSide = 2
  /\ \E i \in 1..4 : original = FlatImage(6, 6, palette[i].colorLab)
  /\ showMosaic = TRUE
  /\ \E q \in Requests :
       /\ writeLDrawFile = (q[1] = "3")
       /\ writePartList = (q[1] = "p")
       /\ ldrawFileName = (IF q[2] = "" THEN "" ELSE q[2] \o ".ldr")
       /\ partList = (IF q[2] = "" THEN "" ELSE q[2] \o ".csv")
  /\ pc = "repaint"
  /\ InitPass
  /\ NoLoad

SpecE2E == InitE2E /\ [][Next]_vars

\* the scenario: four swatches, each available for exactly one category and
\* each category offered by exactly one of them; a one-colour image of 2x2
\* tiles whose colour is that of one of the swatches
Scenario ==
  /\ Len(palette) = 4
  /\ \A i \in 1..4 : Cardinality({p \in 0..3 : HasFlag(palette[i], p)}) = 1
  /\ \A p \in 0..3 : Cardinality(Eligible(p)) = 1
  /\ Cardinality(Tiles) = 4 /\ TileRows = 2
  /\ \E i \in 1..4 : \A p \in Pixels(original) : original.px[p] = palette[i].colorLab
\* the swatch whose colour the image has
ImageSwatch ==
  CHOOSE i \in 1..Len(palette) :
    \A p \in Pixels(original) : original.px[p] = palette[i].colorLab
\* the one swatch available for a category
SwatchOf(category) == CHOOSE i \in Eligible(category) : TRUE

\* C7 as stated: in the scenario the completed pass uses the swatch whose
\* colour the image has for all 6 cells of all 4 tiles.
C7_AllCellsUseImageSwatch ==
  (Completed /\ Scenario) =>
    /\ DOMAIN chosen = Tiles
    /\ \A t \in Tiles : \A cell \in 0..5 : chosen[t][cell] = ImageSwatch

\* C7 amended: in the scenario the completed pass uses, in all 4 tiles, for
\* every cell the one swatch that is available for the cell's category,
\* whatever the colour of the image; the swatch whose colour the image has is
\* used for exactly the cells of its own category.
C7_CellsUseCategorySwatch ==
  (Completed /\ Scenario) =>
    /\ DOMAIN chosen = Tiles
    /\ \A t \in Tiles : \A cell \in 0..5 :
         /\ chosen[t][cell] = SwatchOf(CategoryOfCell(cell))
         /\ (chosen[t][cell] = ImageSwatch)
              <=> HasFlag(palette[ImageSwatch], CategoryOfCell(cell))

\* C7 witness: a completed pass of the scenario in which the image has the
\* colour of the swatch for the small flat pieces.
C7_Witness ==
  /\ Completed
  /\ Scenario
  /\ HasFlag(palette[ImageSwatch], 1)
  /\ Cardinality(DOMAIN chosen) = 4

\* the well-formed records of the file, in file order
WellFormedRecords ==
  LET IsWellFormed(r) == r.wellFormed
      wf == SelectSeq(paletteFile.records, IsWellFormed)
  IN [i \in 1..Len(wf) |-> wf[i].spec]

\* C10 as stated: the loaded catalogue is exactly the well-formed records of
\* the file, in file order, whatever malformed records stand between them.
C10_LoadsExactlyWellFormed ==
  (pc = "loaded" /\ paletteFile.exists) => palette = WellFormedRecords

\* ------------------------------------------------- repeated passes
\* every slot of a buffer is zero
AllZero(buf) == \A i \in DOMAIN buf : \A g \in 0..5 : buf[i][g] = <<0, 0, 0>>
\* the pass has its first tile before it
AtFirstTile == pc = "tile" /\ calls = <<>> /\ rc = 0 /\ cc = 0
\* the completed pass ran with the catalogue and parameters of the one before
SameAsLastPass ==
  /\ pc = "done"
  /\ passLog.last.ran
  /\ passLog.last.palette = palette
  /\ passLog.last.luminanceFactor = luminanceFactor
  /\ passLog.last.showMosaic = showMosaic

\* C11: no step ever changes state.original; a pass reaches its first tile
\* with state.image the (sharpened) clone of state.original and every slot of
\* both buffers zero, whatever the pass before has left; and a pass that ran
\* with the catalogue and parameters of the pass before it has chosen the same
\* swatch for every cell of every tile.
C11_PassesAreIndependent ==
  /\ [][original' = original]_vars
  /\ [](AtFirstTile =>
          /\ image = sharpen(original, amount, threshold)
          /\ AllZero(currentRow) /\ AllZero(nextRow))
  /\ [](SameAsLastPass => chosen = passLog.last.chosen)

\* C11 witness: a second pass with the parameters of the first has completed
\* with the same swatches, and the first had left error in the buffers.
C11_Witness ==
  /\ SameAsLastPass
  /\ showMosaic
  /\ Cardinality(DOMAIN chosen) = 4
  /\ chosen = passLog.last.chosen
  /\ ~AllZero(currentRow)
  /\ passLog.n >= 2

\* ------------------------------------------------- the files of a pass
\* a pass has begun and has not completed
InProgress == pc \notin {"repaint", "done", "wait", "exit"}
\* the repaint that directly follows a press of the key, an output name given
Requested(key) == caller = "key" /\ pressedKey = key /\ ldrawFileName # ""

\* C12 as stated: while a pass has not completed, the files on disk are what
\* they were when it began; a pass that has aborted has left the build file
\* as it was and has quantized no tile of state.image.
C12_NothingObservableBeforeDone ==
  /\ InProgress => disk = passLog.before
  /\ pc = "abort" => /\ disk.ldr = passLog.before.ldr
                     /\ image = sharpen(original, amount, threshold)

\* C13 as stated: both flags are false while the program waits for input; a
\* pass changes the build file only if it directly follows a '3' press and
\* the part-count file only if it directly follows a 'p' press, an output
\* name given; and the build file of a completed pass that follows a '3'
\* press is not empty.
C13_FilesOnlyWhenRequested ==
  /\ pc = "wait" => ~writeLDrawFile /\ ~writePartList
  /\ disk.ldr # passLog.before.ldr => Requested("3")
  /\ disk.csv # passLog.before.csv => Requested("p")
  /\ (pc = "done" /\ Requested("3")) => disk.ldr # <<>>

\* ------------------------------------------------- the resized image
LongSide(img) == IF img.rows < img.cols THEN img.cols ELSE img.rows
ShortSide(img) == IF img.rows < img.cols THEN img.rows ELSE img.cols

\* C14 as stated: for an input with both sides at least tilesLongSide the
\* long side of the result is a multiple of tilesLongSide, so that the
\* stencil side long / tilesLongSide divides it and it holds exactly
\* tilesLongSide tiles.
C14_LongSideDivisible ==
  (pc \in {"resized", "terminate"} /\ ShortSide(original) >= tilesLongSide) =>
    /\ pc = "resized"
    /\ LongSide(result) % tilesLongSide = 0
    /\ LongSide(result) % (LongSide(result) \div tilesLongSide) = 0
    /\ LongSide(result) \div (LongSide(result) \div tilesLongSide) = tilesLongSide

\* ------------------------------------------------- the steps of a tile
\* the place of a cell in the steps of the current tile, 0 if it has none
PlaceOf(cell) ==
  IF \E i \in 1..Len(steps) : steps[i] = cell
  THEN CHOOSE i \in 1..Len(steps) : steps[i] = cell
  ELSE 0
\* all six cells of the current tile are quantized
TileQuantized == pc = "write"

\* C15 as stated: cell 4 is the first cell of a tile to be quantized, and
\* cell 0 is quantized after cell 5 and before cell 3; the order is cell 4,
\* cell 2, cell 5, cell 0, cell 3.
C15_OrderStartsWithCell4 ==
  /\ steps # <<>> => steps[1] = 4
  /\ PlaceOf(0) # 0 => PlaceOf(5) # 0 /\ PlaceOf(5) < PlaceOf(0)
  /\ PlaceOf(3) # 0 => PlaceOf(0) # 0 /\ PlaceOf(0) < PlaceOf(3)
  /\ TileQuantized =>
       PlaceOf(4) < PlaceOf(2) /\ PlaceOf(2) < PlaceOf(5)

\* C15 amended: the cells of a tile are quantized in the order cell 0, cell 4,
\* cell 2, cell 5, cell 1, cell 3, each once: cell 0 is the first, cell 4 the
\* second, and cell 1 comes after cell 5 and before cell 3.
C15_OrderIs042513 ==
  /\ Len(steps) <= 6
  /\ \A i \in 1..Len(steps) : steps[i] = <<0, 4, 2, 5, 1, 3>>[i]
  /\ TileQuantized => Len(steps) = 6

\* C15 witness: a tile that is not the first of the pass has all its six
\* cells quantized.
C15_Witness ==
  /\ TileQuantized
  /\ steps = <<0, 4, 2, 5, 1, 3>>
  /\ rc > 0 /\ cc > 0

\* ------------------------------------------------- the steps one by one
\* buf with residual * (w / 16.) added to the slot of a cell in a column
Plus(buf, col, cell, residual, w) ==
  [buf EXCEPT ![col][cell] = VAdd(@, VMul16(residual, w))]
\* the same, but nothing is added for a column before column 0
PlusIfColumn(buf, col, cell, residual, w) ==
  IF col >= 0 THEN Plus(buf, col, cell, residual, w) ELSE buf
\* what the step that quantizes a cell was given and what it has chosen
TargetOf(cell) == VAdd(groupValues[cell], currentRow[cc][cell])
ResidualOf(cell) == VSub(TargetOf(cell), palette[avg'[cell]].colorLab)
\* the step that quantizes a cell is taken, and a swatch is found
StepOf(cell, from, to) == pc = from /\ pc' = to /\ lastStep'.group = cell

\* C16: the step of cell 4 takes as target the average of cell 4 plus the
\* error carried for cell 4 in currentRow[col]; its residual is the target
\* minus the colour of the chosen swatch; and it adds the residual times 3/16
\* to the cell-2 slot and 4/16 to the cell-5 slot of currentRow[col], 4/16 to
\* the cell-4 slot of nextRow[col] and 5/16 to the cell-4 slot of
\* currentRow[col+1], and changes no other slot.
C16_Cell4Step ==
  [][StepOf(4, "q4", "q2") =>
       /\ lastStep'.targetColor = TargetOf(4)
       /\ lastStep'.error = ResidualOf(4)
       /\ currentRow' =
            Plus(Plus(Plus(currentRow, cc, 2, ResidualOf(4), 3),
                      cc, 5, ResidualOf(4), 4),
                 cc + 1, 4, ResidualOf(4), 5)
       /\ nextRow' = Plus(nextRow, cc, 4, ResidualOf(4), 4)]_vars

\* C16 witness: cell 4 of a tile right of column 0 has been quantized with
\* carried error in its target and has left a residual.
C16_Witness ==
  /\ pc = "q2"
  /\ lastStep.group = 4
  /\ lastStep.cc > 0
  /\ lastStep.targetColor # groupValues[4]
  /\ lastStep.error # <<0, 0, 0>>
  /\ nextRow[cc][4] # <<0, 0, 0>>

\* C17 as stated: the step of cell 0 adds its residual times 3/16 to the
\* cell-2 slot of nextRow[col-1] (if col > 0), 5/16 to the cell-0 slot and
\* 1/16 to the cell-4 slot of nextRow[col] and 7/16 to the pending error of
\* cell 3, and changes no other slot.
C17_Cell0Step ==
  [][StepOf(0, "q0", "q4") =>
       /\ lastStep'.targetColor = TargetOf(0)
       /\ lastStep'.error = ResidualOf(0)
       /\ currentRow' = Plus(currentRow, cc, 3, ResidualOf(0), 7)
       /\ nextRow' =
            Plus(Plus(PlusIfColumn(nextRow, cc - 1, 2, ResidualOf(0), 3),
                      cc, 0, ResidualOf(0), 5),
                 cc, 4, ResidualOf(0), 1)]_vars

\* C17 amended: it is the step of cell 1 (target: the average of cell 1 plus
\* the pending error of cell 1), taken after cell 5 and before cell 3, that
\* adds its residual times 3/16 to the cell-2 slot of nextRow[col-1] (if
\* col > 0), 5/16 to the cell-0 slot and 1/16 to the cell-4 slot of
\* nextRow[col] and 7/16 to the pending error of cell 3, and changes no other
\* slot.
C17_Cell1Step ==
  [][StepOf(1, "q1", "q3") =>
       /\ steps = <<0, 4, 2, 5>>
       /\ lastStep'.targetColor = TargetOf(1)
       /\ lastStep'.error = ResidualOf(1)
       /\ currentRow' = Plus(currentRow, cc, 3, ResidualOf(1), 7)
       /\ nextRow' =
            Plus(Plus(PlusIfColumn(nextRow, cc - 1, 2, ResidualOf(1), 3),
                      cc, 0, ResidualOf(1), 5),
                 cc, 4, ResidualOf(1), 1)]_vars

\* C17 witness: cell 1 of a tile right of column 0 has been quantized and
\* has left a residual that reached the column before.
C17_Witness ==
  /\ pc = "q3"
  /\ lastStep.group = 1
  /\ lastStep.cc > 0
  /\ lastStep.error # <<0, 0, 0>>
  /\ VMul16(lastStep.error, 3) # <<0, 0, 0>>
  /\ nextRow[cc - 1][2] # <<0, 0, 0>>

\* ------------------------------------------------- the columns of the buffers
\* the buffers are allocated and a pass works on them
BuffersInUse == showMosaic /\ pc \in {"tile", "q0", "q4", "q2", "q5", "q1", "q3",
                                      "write", "rowend"}
\* the indices of a buffer of floor(imageCols / side) + 2 slots
BufferColumns == 0..((image.cols \div mc.cols) + 1)
RowBuffer(name) == IF name = "current" THEN currentRow ELSE nextRow

\* C18: during a pass both buffers have the indices 0 .. nrCols-1 with
\* nrCols = floor(imageCols / side) + 2; every slot a step adds to and the
\* slot it reads its target from lie in that range; a tile in column 0 adds
\* only to columns 0 and 1 (nothing for column -1 lands in another slot); and
\* the column a target is read from is below the number of tile columns.
C18_BufferIndicesInRange ==
  BuffersInUse =>
    /\ DOMAIN currentRow = BufferColumns
    /\ DOMAIN nextRow = BufferColumns
    /\ cc \in 0..TileCols
    /\ Quantized =>
         /\ lastStep.cc \in BufferColumns
         /\ lastStep.cc < TileCols
         /\ \A i \in 1..Len(lastStep.deposits) :
              LET d == lastStep.deposits[i]
              IN /\ d.col \in DOMAIN RowBuffer(d.row)
                 /\ d.col \in {lastStep.cc - 1, lastStep.cc, lastStep.cc + 1}
                 /\ lastStep.cc = 0 => d.col \in {0, 1}

\* C18 witness: in a one-column image, below the first tile row, a step has
\* added error to the slot of column 1, which no tile reads.
C18_Witness ==
  /\ BuffersInUse
  /\ TileCols = 1
  /\ Quantized
  /\ lastStep.rc > 0
  /\ lastStep.error # <<0, 0, 0>>
  /\ \E i \in 1..Len(lastStep.deposits) : lastStep.deposits[i].col = TileCols
  /\ \E g \in 0..5 : currentRow[TileCols][g] # <<0, 0, 0>>

\* ------------------------------------------------- the hand-over of a row
\* C19: both buffers are all zero when a pass reaches its first tile; and the
\* step that ends a tile row leaves in currentRow exactly what nextRow held
\* and in nextRow zeros only, with the same number of slots, so that nothing
\* a row has deposited is left after the row below it.
C19_RowHandOver ==
  /\ [](AtFirstTile => AllZero(currentRow) /\ AllZero(nextRow))
  /\ [][(pc = "rowend" /\ pc' # "rowend") =>
          /\ currentRow' = nextRow
          /\ AllZero(nextRow')
          /\ DOMAIN nextRow' = DOMAIN nextRow
          /\ rc' = rc + 1]_vars

\* C19 witness: a tile row below the first starts with error handed over in
\* currentRow and nothing in nextRow.
C19_Witness ==
  /\ pc = "tile"
  /\ rc > 0 /\ cc = 0
  /\ ~AllZero(currentRow)
  /\ AllZero(nextRow)

\* ------------------------------------------------- the tiles of a pass
\* the side of the stencil, and the tiles in row-major order, the last row
\* and column clipped
StencilSide == (IF original.rows < original.cols THEN original.cols
                ELSE original.rows) \div tilesLongSide
RowMajorTiles ==
  LET tr == (original.rows + StencilSide - 1) \div StencilSide
      tc == (original.cols + StencilSide - 1) \div StencilSide
  IN [k \in 1..(tr * tc) |-> <<(k - 1) \div tc, (k - 1) % tc>>]

Pending(cell) == \A i \in 1..Len(steps) : steps[i] # cell
\* the step taken quantizes a cell of the current tile
CellStep(cell) == steps' = Append(steps, cell)
\* the tile of the current row in a column has been handed to the callback
Called(col) == \E i \in 1..Len(calls) : calls[i] = <<rc, col>>

\* C21: a step that quantizes a cell quantizes a cell still pending, takes as
\* target the average plus all that its slot of currentRow[col] holds, and
\* changes in currentRow only slots of cells still pending in the tile and
\* slots of the column after it (never the slot of a cell already quantized,
\* nor a tile already passed); no other step but the start of the pass and
\* the row hand-over changes a buffer; a tile is handed to the callback once,
\* with all six cells quantized; and the hand-over, which discards the slots
\* of the row, comes when every tile of the row has been handed over and puts
\* all that nextRow holds into currentRow for the row below.
C21_NoErrorStranded ==
  /\ [][\A g \in 0..5 : CellStep(g) =>
          /\ Pending(g)
          /\ lastStep'.targetColor = VAdd(groupValues[g], currentRow[cc][g])
          /\ DOMAIN currentRow' = DOMAIN currentRow
          /\ \A col \in DOMAIN currentRow : \A slot \in 0..5 :
               currentRow'[col][slot] # currentRow[col][slot] =>
                 \/ col = cc /\ slot # g /\ Pending(slot)
                 \/ col = cc + 1]_vars
  /\ [][((\A g \in 0..5 : ~CellStep(g)) /\ pc \notin {"repaint", "rowend"})
          => UNCHANGED bufVars]_vars
  /\ [][calls' # calls =>
          /\ {steps[i] : i \in 1..Len(steps)} = 0..5
          /\ Len(steps) = 6
          /\ ~Called(cc)
          /\ calls' = Append(calls, <<rc, cc>>)]_vars
  /\ [][(pc = "rowend" /\ pc' # "rowend") =>
          /\ \A col \in 0..(TileCols - 1) : Called(col)
          /\ currentRow' = nextRow]_vars

\* C21 witness: below the first tile row and right of column 0, cell 0 has
\* been quantized with a target that holds error carried in from the tile
\* before and the row above.
C21_Witness ==
  /\ pc = "q4"
  /\ lastStep.group = 0
  /\ lastStep.rc > 0 /\ lastStep.cc > 0
  /\ currentRow[cc][0] # <<0, 0, 0>>
  /\ lastStep.targetColor = VAdd(groupValues[0], currentRow[cc][0])
  /\ lastStep.targetColor # groupValues[0]

\* ------------------------------------------------- ties of the query
\* the eligible swatches at the least weighted distance from the target asked
Nearest ==
  {i \in Eligible(query.partId) :
     \A j \in Eligible(query.partId) :
       WeightedDistance(query.c, palette[i].colorLab)
         <= WeightedDistance(query.c, palette[j].colorLab)}

\* C22: the answer of the query is the earliest swatch of the catalogue
\* sequence among the eligible swatches at the least weighted distance, so it
\* is determined by the catalogue sequence, the target, the category and the
\* luminance weight alone; and the query leaves the catalogue as it was.
C22_TiesGoToTheEarliest ==
  /\ []((query.asked /\ Eligible(query.partId) # {}) =>
          /\ query.minSpec \in Nearest
          /\ \A i \in Nearest : query.minSpec <= i)
  /\ [][palette' = palette /\ luminanceFactor' = luminanceFactor]_vars

\* C22 witness: a query was answered with a swatch although a later eligible
\* swatch of another colour is at the same weighted distance from the target.
C22_Witness ==
  /\ query.asked
  /\ query.minSpec # NULL
  /\ \E j \in Nearest :
       /\ j > query.minSpec
       /\ palette[j].colorLab # palette[query.minSpec].colorLab

====
